---- MODULE Spec2Model ----
(***************************************************************************)
(* rfind_url: a parser that finds URLs in a text fed to it one character   *)
(* at a time in reverse order (src/src/lib.rs).                            *)
(*                                                                         *)
(* Characters are modelled by their Unicode code points, so that the       *)
(* range patterns of the source ('\u{00}'..='\u{1F}', ':'..=';',           *)
(* 'a'..='z') are computed as the source computes them.                    *)
(***************************************************************************)
EXTENDS Integers, Sequences, FiniteSets, TLC

VARIABLES
    scheme_indices,   \* Parser.scheme_indices: [u8; 8]
    state,            \* Parser.state: State
    surround_states,  \* Parser.surround_states: Vec<(char, usize)>
    len,              \* Parser.len: usize
    result,           \* what the last call of advance returned
    c_last,           \* the character the last call of advance was given
    branch,           \* the return path the last operation took
    len_at_call,      \* Parser.len when the last operation was called
    calls,            \* calls of advance since the parser was last as new
    maybes,           \* calls of advance in a row that returned MaybeUrl
    input,            \* the text a caller scans (original order)
    fed,              \* how many characters of input were fed, from its end
    results,          \* what advance returned for each character of input fed
    reached           \* the characters of input that reached the match on
                      \* self.state since the parser was last reset

vars == <<scheme_indices, state, surround_states, len, result, c_last, branch,
          len_at_call, calls, maybes, input, fed, results, reached>>

(***************************************************************************)
(* Characters.                                                             *)
(***************************************************************************)

\* The code point of each character the model names.
Code ==
    [ NUL |-> 0, TAB |-> 9, US |-> 31, SP |-> 32, bang |-> 33, dquote |-> 34,
      hash |-> 35, quote |-> 39, lparen |-> 40, rparen |-> 41, comma |-> 44,
      dot |-> 46, slash |-> 47, one |-> 49, colon |-> 58, semi |-> 59,
      lt |-> 60, eq |-> 61, gt |-> 62, quest |-> 63, at |-> 64, A |-> 65,
      Z |-> 90, lbracket |-> 91, backslash |-> 92, rbracket |-> 93,
      caret |-> 94, underscore |-> 95, backtick |-> 96,
      a |-> 97, e |-> 101, f |-> 102, g |-> 103, h |-> 104, i |-> 105,
      l |-> 108, m |-> 109, n |-> 110, o |-> 111, p |-> 112, s |-> 115,
      t |-> 116, w |-> 119, x |-> 120, z |-> 122,
      lbrace |-> 123, pipe |-> 124, rbrace |-> 125, tilde |-> 126,
      DEL |-> 127, APC |-> 159, NBSP |-> 160, uuml |-> 252,
      langle |-> 10216, rangle |-> 10217 ]

\* The scheme list with "tp" written for "ftp": "http" ends with it.
SCHEMES_tp ==
    << <<Code.h, Code.t, Code.t, Code.p>>,
       <<Code.h, Code.t, Code.t, Code.p, Code.s>>,
       <<Code.m, Code.a, Code.i, Code.l, Code.t, Code.o>>,
       <<Code.n, Code.e, Code.w, Code.s>>,
       <<Code.f, Code.i, Code.l, Code.e>>,
       <<Code.g, Code.i, Code.t>>,
       <<Code.s, Code.s, Code.h>>,
       <<Code.t, Code.p>> >>

\* Allowed URL schemes.
SCHEMES ==
    << <<Code.h, Code.t, Code.t, Code.p>>,
       <<Code.h, Code.t, Code.t, Code.p, Code.s>>,
       <<Code.m, Code.a, Code.i, Code.l, Code.t, Code.o>>,
       <<Code.n, Code.e, Code.w, Code.s>>,
       <<Code.f, Code.i, Code.l, Code.e>>,
       <<Code.g, Code.i, Code.t>>,
       <<Code.s, Code.s, Code.h>>,
       <<Code.f, Code.t, Code.p>> >>

\* SurroundCharacter::Bracket(_, _) and SurroundCharacter::Quote(_).
Bracket(x, y) == [kind |-> "Bracket", fst |-> x, snd |-> y]
Quote(q) == [kind |-> "Quote", fst |-> q, snd |-> q]

SURROUND_CHARACTERS ==
    << Bracket(Code.lparen, Code.rparen),
       Bracket(Code.lbracket, Code.rbracket),
       Quote(Code.quote) >>

\* start reading the first field of Bracket, as its declaration order suggests.
start_first_field(sc) == sc.fst

\* SurroundCharacter::start: Bracket(_end, start) => start, Quote(quote) => quote.
start(sc) == IF sc.kind = "Bracket" THEN sc.snd ELSE sc.fst

\* end reading the second field of Bracket.
end_second_field(sc) == sc.snd

\* SurroundCharacter::end: Bracket(end, _start) => end, Quote(quote) => quote.
end(sc) == IF sc.kind = "Bracket" THEN sc.fst ELSE sc.fst

\* is_illegal with the two ranges exclusive of their upper ends (.. for ..=).
is_illegal_exclusive(c) ==
    \/ c \in 0..30
    \/ c \in 127..158
    \/ c = Code.lt
    \/ c = Code.gt
    \/ c = Code.dquote
    \/ c = Code.SP
    \/ c \in Code.lbrace..Code.rbrace
    \/ c = Code.backslash
    \/ c = Code.caret
    \/ c = Code.langle
    \/ c = Code.rangle
    \/ c = Code.backtick

is_illegal(c) ==
    \/ c \in 0..31
    \/ c \in 127..159
    \/ c = Code.lt
    \/ c = Code.gt
    \/ c = Code.dquote
    \/ c = Code.SP
    \/ c \in Code.lbrace..Code.rbrace
    \/ c = Code.backslash
    \/ c = Code.caret
    \/ c = Code.langle
    \/ c = Code.rangle
    \/ c = Code.backtick

(***************************************************************************)
(* ParserState, the value advance returns.                                 *)
(***************************************************************************)
Url(n) == [tag |-> "Url", length |-> n]
MaybeUrl == [tag |-> "MaybeUrl", length |-> 0]
NoUrl == [tag |-> "NoUrl", length |-> 0]

(***************************************************************************)
(* The parser, as a record of its four fields.                             *)
(***************************************************************************)

\* Parser::new, Parser::default.
Parser_new ==
    [ scheme_indices |-> [i \in 1..8 |-> 0],
      state |-> "Default",
      surround_states |-> <<>>,
      len |-> 0 ]

\* reset without surround_states.clear().
reset_keeps_surrounds(p) ==
    [ scheme_indices |-> [i \in 1..8 |-> 0],
      state |-> "Default",
      surround_states |-> p.surround_states,
      len |-> 0 ]

\* reset without self.len = 0.
reset_keeps_len(p) ==
    [ scheme_indices |-> [i \in 1..8 |-> 0],
      state |-> "Default",
      surround_states |-> <<>>,
      len |-> p.len ]

\* Parser::reset.
reset(p) ==
    [ scheme_indices |-> [i \in 1..8 |-> 0],
      state |-> "Default",
      surround_states |-> <<>>,
      len |-> 0 ]

advance_default(p, c) ==
    IF \/ c = Code.dot
       \/ c = Code.comma
       \/ c \in Code.colon..Code.semi
       \/ c = Code.quest
       \/ c = Code.bang
       \/ c = Code.lparen
    THEN reset(p)
    ELSE [p EXCEPT !.state = "Path"]

advance_path(p, c) ==
    IF c = Code.slash THEN [p EXCEPT !.state = "SchemeFirstSlash"] ELSE p

advance_scheme_first_slash(p, c) ==
    IF c = Code.slash
    THEN [p EXCEPT !.state = "SchemeSecondSlash"]
    ELSE [p EXCEPT !.state = "Path"]

\* advance_scheme_second_slash without its test for ':'.
advance_scheme_second_slash_any(p, c) == [p EXCEPT !.state = "Scheme"]

advance_scheme_second_slash(p, c) ==
    IF c = Code.colon
    THEN [p EXCEPT !.state = "Scheme"]
    ELSE [p EXCEPT !.state = "Path"]

\* SCHEMES[i].chars().rev().nth(k): the character k places from the end of
\* scheme i, or -1 for None.
rev_nth(i, k) ==
    IF k < Len(SCHEMES[i]) THEN SCHEMES[i][Len(SCHEMES[i]) - k] ELSE -1

\* The loop body with a mismatch that starts the scheme over.
scheme_index_step_restarts(i, index, c) ==
    IF rev_nth(i, index) # c THEN 0 ELSE index + 1

\* The body of the for loop of advance_scheme for one scheme: the new value
\* of its index.
scheme_index_step(i, index, c) ==
    IF rev_nth(i, index) # c THEN Len(SCHEMES[i]) + 1 ELSE index + 1

\* first() for last(): the oldest pending entry, not the one pushed last.
last_surround_first(p) ==
    IF p.surround_states = <<>> THEN 0 ELSE p.surround_states[1][2]

\* The length left as it is when a URL completes.
last_surround_ignored(p) == 0

\* self.surround_states.last().map(|s| s.1).unwrap_or(0)
last_surround(p) ==
    IF p.surround_states = <<>> THEN 0
    ELSE p.surround_states[Len(p.surround_states)][2]

\* The for loop of advance_scheme from scheme i on: the parser and the
\* Option<usize> returned (-1 for None).
RECURSIVE scheme_loop(_, _, _)
scheme_loop(p, c, i) ==
    IF i > Len(SCHEMES) THEN [p |-> p, some |-> -1]
    ELSE IF p.scheme_indices[i] >= Len(SCHEMES[i]) THEN scheme_loop(p, c, i + 1)
    ELSE LET index == scheme_index_step(i, p.scheme_indices[i], c)
             p1 == [p EXCEPT !.scheme_indices[i] = index]
         IN IF index = Len(SCHEMES[i])
            THEN LET p2 == [p1 EXCEPT !.len = p1.len - last_surround(p1)]
                 IN [p |-> p2, some |-> p2.len]
            ELSE scheme_loop(p1, c, i + 1)

advance_scheme(p, c) ==
    IF c \in Code.a..Code.z \/ c \in Code.A..Code.Z
    THEN scheme_loop(p, c, 1)
    ELSE [p |-> reset(p), some |-> -1]

\* find for rfind: the least index of an entry whose character is c.
rfind_first(ss, c) ==
    LET hits == {k \in 1..Len(ss) : ss[k][1] = c}
    IN IF hits = {} THEN 0 ELSE CHOOSE k \in hits : \A j \in hits : k <= j

\* surround_states.iter().enumerate().rfind(|s| (s.1).0 == c): the greatest
\* index of an entry whose character is c, or 0 for None.
rfind(ss, c) ==
    LET hits == {k \in 1..Len(ss) : ss[k][1] = c}
    IN IF hits = {} THEN 0 ELSE CHOOSE k \in hits : \A j \in hits : j <= k

\* Vec::remove(index).
remove(ss, index) == SubSeq(ss, 1, index - 1) \o SubSeq(ss, index + 1, Len(ss))

\* The loop pushing the length before the character was counted.
RECURSIVE surround_loop_zero_based(_, _, _, _)
surround_loop_zero_based(p, c, m, k) ==
    IF k > Len(SURROUND_CHARACTERS) THEN [ret |-> FALSE, p |-> p, r |-> NoUrl, b |-> "none"]
    ELSE IF m = 0 /\ start(SURROUND_CHARACTERS[k]) = c
    THEN [ret |-> TRUE,
          p |-> [p EXCEPT !.surround_states =
                     Append(@, <<end(SURROUND_CHARACTERS[k]), p.len - 1>>)],
          r |-> MaybeUrl, b |-> "push"]
    ELSE IF end(SURROUND_CHARACTERS[k]) = c
    THEN [ret |-> TRUE, p |-> reset(p), r |-> NoUrl, b |-> "unbalanced"]
    ELSE surround_loop_zero_based(p, c, m, k + 1)

\* The for loop over SURROUND_CHARACTERS of advance, from entry k on; m is the
\* match found before it (0 for None).  ret is FALSE when the loop ends
\* without returning.
RECURSIVE surround_loop(_, _, _, _)
surround_loop(p, c, m, k) ==
    IF k > Len(SURROUND_CHARACTERS) THEN [ret |-> FALSE, p |-> p, r |-> NoUrl, b |-> "none"]
    ELSE IF m = 0 /\ start(SURROUND_CHARACTERS[k]) = c
    THEN [ret |-> TRUE,
          p |-> [p EXCEPT !.surround_states =
                     Append(@, <<end(SURROUND_CHARACTERS[k]), p.len>>)],
          r |-> MaybeUrl, b |-> "push"]
    ELSE IF end(SURROUND_CHARACTERS[k]) = c
    THEN [ret |-> TRUE, p |-> reset(p), r |-> NoUrl, b |-> "unbalanced"]
    ELSE surround_loop(p, c, m, k + 1)

\* The two match statements with MaybeUrl for every length.
advance_state_always_maybe(p, c) ==
    LET q == CASE p.state = "Default" -> [p |-> advance_default(p, c), some |-> -1]
               [] p.state = "Path" -> [p |-> advance_path(p, c), some |-> -1]
               [] p.state = "SchemeFirstSlash" ->
                      [p |-> advance_scheme_first_slash(p, c), some |-> -1]
               [] p.state = "SchemeSecondSlash" ->
                      [p |-> advance_scheme_second_slash(p, c), some |-> -1]
               [] p.state = "Scheme" -> advance_scheme(p, c)
    IN IF q.some # -1 THEN [p |-> reset(q.p), r |-> Url(q.some), b |-> "url"]
       ELSE [p |-> q.p, r |-> MaybeUrl, b |-> "automaton"]

\* The two match statements that end advance.
advance_state(p, c) ==
    LET q == CASE p.state = "Default" -> [p |-> advance_default(p, c), some |-> -1]
               [] p.state = "Path" -> [p |-> advance_path(p, c), some |-> -1]
               [] p.state = "SchemeFirstSlash" ->
                      [p |-> advance_scheme_first_slash(p, c), some |-> -1]
               [] p.state = "SchemeSecondSlash" ->
                      [p |-> advance_scheme_second_slash(p, c), some |-> -1]
               [] p.state = "Scheme" -> advance_scheme(p, c)
    IN IF q.some # -1 THEN [p |-> reset(q.p), r |-> Url(q.some), b |-> "url"]
       ELSE IF q.p.len = 0 THEN [p |-> q.p, r |-> NoUrl, b |-> "rejected"]
       ELSE [p |-> q.p, r |-> MaybeUrl, b |-> "automaton"]

\* advance without the return that follows the removal of a matched entry.
advance_absorbed_reaches_state(p, c) ==
    LET p1 == [p EXCEPT !.len = p.len + 1]
        m == rfind(p1.surround_states, c)
    IN IF is_illegal(c) THEN [p |-> reset(p1), r |-> NoUrl, b |-> "illegal"]
       ELSE IF m # 0 /\ p1.surround_states[m][2] + 1 < p1.len
       THEN [p |-> advance_state([p1 EXCEPT !.surround_states = remove(@, m)], c).p,
             r |-> MaybeUrl, b |-> "match"]
       ELSE LET f == surround_loop(p1, c, m, 1)
            IN IF f.ret THEN [p |-> f.p, r |-> f.r, b |-> f.b]
               ELSE advance_state(p1, c)

\* advance without the test that the surround is not empty.
advance_empty_pair_matched(p, c) ==
    LET p1 == [p EXCEPT !.len = p.len + 1]
        m == rfind(p1.surround_states, c)
    IN IF is_illegal(c) THEN [p |-> reset(p1), r |-> NoUrl, b |-> "illegal"]
       ELSE IF m # 0
       THEN [p |-> [p1 EXCEPT !.surround_states = remove(@, m)],
             r |-> MaybeUrl, b |-> "match"]
       ELSE LET f == surround_loop(p1, c, m, 1)
            IN IF f.ret THEN [p |-> f.p, r |-> f.r, b |-> f.b]
               ELSE advance_state(p1, c)

\* Parser::advance: the parser after the call, the ParserState returned, and
\* the return statement taken.
advance(p, c) ==
    LET p1 == [p EXCEPT !.len = p.len + 1]
        m == rfind(p1.surround_states, c)
    IN IF is_illegal(c) THEN [p |-> reset(p1), r |-> NoUrl, b |-> "illegal"]
       ELSE IF m # 0 /\ p1.surround_states[m][2] + 1 < p1.len
       THEN [p |-> [p1 EXCEPT !.surround_states = remove(@, m)],
             r |-> MaybeUrl, b |-> "match"]
       ELSE LET f == surround_loop(p1, c, m, 1)
            IN IF f.ret THEN [p |-> f.p, r |-> f.r, b |-> f.b]
               ELSE advance_state(p1, c)

(***************************************************************************)
(* The state machine.                                                      *)
(***************************************************************************)

\* The parser held in the variables.
self ==
    [ scheme_indices |-> scheme_indices,
      state |-> state,
      surround_states |-> surround_states,
      len |-> len ]

\* Bounds of the model.
MaxLen == 8
MaxSurround == 2

\* The characters a caller feeds in the free specification.
Letters ==
    {Code.h, Code.t, Code.p, Code.s, Code.f, Code.g, Code.i, Code.x, Code.A}
Alphabet ==
    Letters \cup
    {Code.slash, Code.colon, Code.dot, Code.one,
     Code.lparen, Code.rparen, Code.lbracket, Code.rbracket, Code.quote,
     Code.SP, Code.NUL}

SetParser(p) ==
    /\ scheme_indices' = p.scheme_indices
    /\ state' = p.state
    /\ surround_states' = p.surround_states
    /\ len' = p.len

Init ==
    /\ scheme_indices = Parser_new.scheme_indices
    /\ state = Parser_new.state
    /\ surround_states = Parser_new.surround_states
    /\ len = Parser_new.len
    /\ result = [tag |-> "None", length |-> 0]
    /\ c_last = -1
    /\ branch = "new"
    /\ len_at_call = 0
    /\ calls = 0
    /\ maybes = 0
    /\ input = <<>>
    /\ fed = 0
    /\ results = <<>>
    /\ reached = <<>>

\* parser.advance(c), for any character.
Advance(c) ==
    /\ len < MaxLen
    /\ \E o \in {advance(self, c)} :
          /\ Len(o.p.surround_states) <= MaxSurround
          /\ SetParser(o.p)
          /\ result' = o.r
          /\ branch' = o.b
          /\ calls' = IF o.p = Parser_new THEN 0 ELSE calls + 1
          /\ maybes' = IF o.r = MaybeUrl THEN maybes + 1 ELSE 0
    /\ c_last' = c
    /\ len_at_call' = len
    /\ UNCHANGED <<input, fed, results, reached>>

\* parser.reset().
Reset ==
    /\ SetParser(reset(self))
    /\ branch' = "reset"
    /\ len_at_call' = len
    /\ calls' = 0
    /\ maybes' = 0
    /\ UNCHANGED <<result, c_last, input, fed, results, reached>>

Next ==
    \/ \E c \in Alphabet : Advance(c)
    \/ Reset

Spec == Init /\ [][Next]_vars

(***************************************************************************)
(* A caller scanning one text from its end to its start, as the tests'     *)
(* max_len and exact_url_match do: for c in input.chars().rev()            *)
(* { parser.advance(c) }.                                                  *)
(***************************************************************************)

\* Bound of the model: the longest path of the generated texts.
MaxPath == 2

\* All sequences over S of length 1..n.
RECURSIVE SeqsUpTo(_, _)
SeqsUpTo(S, n) ==
    IF n = 0 THEN {}
    ELSE LET shorter == SeqsUpTo(S, n - 1)
         IN {<<c>> : c \in S} \cup shorter \cup
            {Append(w, c) : w \in shorter, c \in S}

Sep == <<Code.colon, Code.slash, Code.slash>>

\* What stands where a text's scheme would: the schemes, a word that is no
\* scheme, and schemes with a surround character inside.
SchemeParts ==
    {SCHEMES[i] : i \in 1..Len(SCHEMES)} \cup
    { <<Code.x>>,
      <<Code.h, Code.t, Code.lparen, Code.t, Code.p>>,
      <<Code.h, Code.t, Code.rparen, Code.t, Code.p>> }

PathParts ==
    SeqsUpTo({Code.a, Code.slash, Code.dot}, MaxPath) \cup
    { <<Code.rparen, Code.a>>, <<Code.a, Code.rparen>>, <<Code.a, Code.colon>>,
      <<Code.a, Code.SP, Code.a>>, <<Code.a, Code.slash, Code.a>>,
      <<Code.a, Code.dot, Code.rparen, Code.a>> }

Before == {<<>>, <<Code.lparen>>, <<Code.lbracket>>, <<Code.quote>>, <<Code.x>>}

After ==
    {<<>>, <<Code.rparen>>, <<Code.rbracket>>, <<Code.quote>>,
     <<Code.lparen>>, <<Code.lbracket>>}

Texts ==
    {b \o s \o Sep \o p \o a :
        b \in Before, s \in SchemeParts, p \in PathParts, a \in After}

InitText ==
    /\ scheme_indices = Parser_new.scheme_indices
    /\ state = Parser_new.state
    /\ surround_states = Parser_new.surround_states
    /\ len = Parser_new.len
    /\ result = [tag |-> "None", length |-> 0]
    /\ c_last = -1
    /\ branch = "new"
    /\ len_at_call = 0
    /\ calls = 0
    /\ maybes = 0
    /\ input \in Texts
    /\ fed = 0
    /\ results = <<>>
    /\ reached = <<>>

\* One turn of the caller's loop: the next character, from the end.
Feed ==
    /\ fed < Len(input)
    /\ \E c \in {input[Len(input) - fed]} : \E o \in {advance(self, c)} :
          /\ SetParser(o.p)
          /\ result' = o.r
          /\ branch' = o.b
          /\ c_last' = c
          /\ results' = Append(results, o.r)
          /\ calls' = IF o.p = Parser_new THEN 0 ELSE calls + 1
          /\ maybes' = IF o.r = MaybeUrl THEN maybes + 1 ELSE 0
          /\ reached' = IF o.p = Parser_new THEN <<>>
                        ELSE IF o.b = "automaton" THEN Append(reached, c)
                        ELSE reached
    /\ len_at_call' = len
    /\ fed' = fed + 1
    /\ UNCHANGED input

NextText == Feed

SpecText == InitText /\ [][NextText]_vars

\* What advance returns for text[k], text[k-1], ..., text[1], fed in this
\* order to parser p.
RECURSIVE run(_, _, _)
run(p, text, k) ==
    IF k = 0 THEN <<>>
    ELSE LET o == advance(p, text[k])
         IN <<o.r>> \o run(o.p, text, k - 1)

(***************************************************************************)
(* Vocabulary of the properties.                                           *)
(***************************************************************************)

\* The illegal characters as the specification lists them.
IllegalCharacters ==
    (0..31) \cup (127..159) \cup
    {Code.SP, Code.lt, Code.gt, Code.dquote, Code.lbrace, Code.pipe,
     Code.rbrace, Code.backslash, Code.caret, Code.backtick,
     Code.langle, Code.rangle}

\* ( ) [ ] '
SurroundCharacters ==
    {Code.lparen, Code.rparen, Code.lbracket, Code.rbracket, Code.quote}

\* The text t starts with the text w.
HasPrefix(t, w) == Len(w) <= Len(t) /\ SubSeq(t, 1, Len(w)) = w

\* The text t ends with the text w.
HasSuffix(t, w) ==
    Len(w) <= Len(t) /\ SubSeq(t, Len(t) - Len(w) + 1, Len(t)) = w

\* The text w is a contiguous part of the text t.
Contains(t, w) ==
    \E k \in 1..(Len(t) - Len(w) + 1) : SubSeq(t, k, k + Len(w) - 1) = w

\* The part of input that follows its first n characters.
Rest(t, n) == SubSeq(t, n + 1, Len(t))

\* A path as claim C1 describes it.
PlainPath(p) ==
    /\ Len(p) >= 1
    /\ \A k \in 1..Len(p) :
          /\ p[k] \notin IllegalCharacters
          /\ p[k] \notin SurroundCharacters
          /\ p[k] # Code.colon
    /\ p[Len(p)] \notin {Code.dot, Code.comma, Code.semi, Code.quest, Code.bang}

(***************************************************************************)
(* C1: for every scheme s and every plain path p (PlainPath), feeding      *)
(* s + "://" + p in reverse to a fresh parser returns MaybeUrl on every    *)
(* call but the last and Url(len(s) + 3 + len(p)) on the last.             *)
(* The code does not do this for a path that starts with '/', such as      *)
(* file:///a: the third slash leaves SchemeSecondSlash for Path.           *)
(***************************************************************************)
C1_SchemePathDetected ==
    \A i \in 1..Len(SCHEMES) :
        ( /\ HasPrefix(input, SCHEMES[i] \o Sep)
          /\ PlainPath(Rest(input, Len(SCHEMES[i]) + 3))
          /\ fed = Len(input) )
        => /\ \A k \in 1..(fed - 1) : results[k] = MaybeUrl
           /\ results[fed] = Url(Len(input))

(***************************************************************************)
(* C2: a text that contains none of the eight schemes as a contiguous      *)
(* part never makes advance return Url(_).                                 *)
(* The code returns Url for ht(tp://a): the '(' that closes the pending    *)
(* ')' is absorbed between the letters of the scheme.                      *)
(***************************************************************************)
C2_NoSchemeNoUrl ==
    (\A i \in 1..Len(SCHEMES) : ~Contains(input, SCHEMES[i]))
    => \A k \in 1..Len(results) : results[k].tag # "Url"

\* The n characters fed last, in the order of the text.
LastFed(n) == SubSeq(input, Len(input) - fed + 1, Len(input) - fed + n)

\* The text t is a scheme, then "://", then at least one character.
IsUrlText(t) ==
    \E i \in 1..Len(SCHEMES) :
        HasPrefix(t, SCHEMES[i] \o Sep) /\ Len(t) > Len(SCHEMES[i]) + 3

(***************************************************************************)
(* C3: whenever advance returns Url(n), the n characters fed last, read in *)
(* the order of the text, are a scheme, "://" and at least one character.  *)
(* The code returns Url(2) for ht)tp://a and Url(7) for http://)a: the     *)
(* length is cut at the last pending surround character wherever it stood. *)
(***************************************************************************)
C3_UrlSpanIsUrl ==
    (fed > 0 /\ result.tag = "Url")
    => /\ result.length <= fed
       /\ IsUrlText(LastFed(result.length))

(***************************************************************************)
(* C4: right after a call of advance that returned Url(_) or NoUrl the     *)
(* parser is in its initial state: state Default, every scheme index 0, no *)
(* pending surround entry, len 0.  What later calls return then depends on *)
(* nothing fed before.                                                     *)
(***************************************************************************)
C4_InitialAfterUrlOrNoUrl ==
    result.tag \in {"Url", "NoUrl"}
    => /\ state = "Default"
       /\ \A i \in 1..8 : scheme_indices[i] = 0
       /\ surround_states = <<>>
       /\ len = 0
       /\ self = Parser_new

\* A URL was completed while a surround entry was pending.
C4_Witness ==
    /\ branch = "url"
    /\ result.tag = "Url"
    /\ result.length < len_at_call + 1

(***************************************************************************)
(* C5: reset() in any reachable state gives the state of Parser::new();    *)
(* a second reset() changes nothing; and the parser after reset() answers  *)
(* every character as a fresh parser does.                                 *)
(***************************************************************************)
C5_ResetIsNew ==
    /\ branch = "reset" => self = Parser_new
    /\ reset(self) = Parser_new
    /\ reset(reset(self)) = reset(self)
    /\ \A c \in Alphabet : advance(reset(self), c) = advance(Parser_new, c)

\* reset() was called on a parser in the middle of a scheme.
C5_Witness ==
    /\ branch = "reset"
    /\ len_at_call >= 6
    /\ result = MaybeUrl
    /\ c_last = Code.p

(***************************************************************************)
(* C6: from every reachable state, advance(c) with c an illegal character  *)
(* returns NoUrl and leaves the parser in its initial state; the           *)
(* character is never absorbed by the surround tracker.                    *)
(***************************************************************************)
C6_IllegalResets ==
    /\ \A c \in IllegalCharacters :
          LET o == advance(self, c)
          IN o.r = NoUrl /\ o.p = Parser_new /\ o.b = "illegal"
    /\ (c_last \in IllegalCharacters /\ branch # "reset")
       => /\ result = NoUrl
          /\ branch = "illegal"
          /\ self = Parser_new

\* An illegal character was fed to a parser that had consumed characters.
C6_Witness ==
    /\ c_last = Code.SP
    /\ branch = "illegal"
    /\ len_at_call >= 5
    /\ result = NoUrl

\* The text u has no surround character and, fed alone in reverse to a fresh
\* parser, yields Url(len(u)) on its first character.
DetectedAlone(u) ==
    /\ Len(u) >= 1
    /\ \A k \in 1..Len(u) : u[k] \notin SurroundCharacters
    /\ run(Parser_new, u, Len(u))[Len(u)] = Url(Len(u))

\* ( ), [ ] and ' '.
BalancedPairs ==
    { <<Code.lparen, Code.rparen>>, <<Code.lbracket, Code.rbracket>>,
      <<Code.quote, Code.quote>> }

\* The text t without its first and last character.
Inner(t) == SubSeq(t, 2, Len(t) - 1)

\* The text t without its last character.
Front(t) == SubSeq(t, 1, Len(t) - 1)

(***************************************************************************)
(* C7: when u has no surround character and is detected alone with         *)
(* Url(len(u)), then feeding u wrapped in one balanced pair, (u), [u] or   *)
(* 'u', returns Url(len(u)) on the call for the first character of u.      *)
(***************************************************************************)
C7_BalancedWrapAbsorbed ==
    \A w \in BalancedPairs :
        ( /\ Len(input) >= 3
          /\ input[1] = w[1]
          /\ input[Len(input)] = w[2]
          /\ DetectedAlone(Inner(input))
          /\ fed >= Len(input) - 1 )
        => results[Len(input) - 1] = Url(Len(input) - 2)

\* 'u' was scanned up to the first character of u, with u a URL of 9 or
\* more characters.
C7_Witness ==
    /\ Len(input) >= 11
    /\ input[1] = Code.quote
    /\ input[Len(input)] = Code.quote
    /\ DetectedAlone(Inner(input))
    /\ fed = Len(input) - 1
    /\ result = Url(Len(input) - 2)

(***************************************************************************)
(* C8: when u has no surround character and is detected alone with         *)
(* Url(len(u)), then feeding u followed by one surround character, any of  *)
(* ( ) [ ] ', still returns Url(len(u)) on the call for the first          *)
(* character of u.                                                         *)
(***************************************************************************)
C8_TrailingSurroundIgnored ==
    \A c \in SurroundCharacters :
        ( /\ Len(input) >= 2
          /\ input[Len(input)] = c
          /\ DetectedAlone(Front(input))
          /\ fed = Len(input) )
        => results[fed] = Url(Len(input) - 1)

\* u) was scanned to its start: the ')' is still pending and is not counted.
C8_Witness ==
    /\ Len(input) >= 2
    /\ input[Len(input)] = Code.rparen
    /\ DetectedAlone(Front(input))
    /\ fed = Len(input)
    /\ result = Url(Len(input) - 1)
    /\ len_at_call = Len(input) - 1

\* Parser p completes a URL when fed the first k characters of the text t in
\* reverse, every call before the last returning MaybeUrl.
Completes(p, t, k) ==
    LET rs == run(p, t, k)
    IN rs[k].tag = "Url" /\ \A j \in 1..(k - 1) : rs[j] = MaybeUrl

\* Some continuation of the input makes parser p return Url(_) with no NoUrl
\* before it.  The continuations tried are the ends of the reversed texts
\* s://a: what is left of a path, of "//", of ":" and of a scheme.
Viable(p) ==
    \E i \in 1..Len(SCHEMES) :
        \E k \in 1..(Len(SCHEMES[i]) + 4) :
            Completes(p, SCHEMES[i] \o Sep \o <<Code.a>>, k)

\* Parser p is matching a scheme and every scheme has failed.
Dead(p) ==
    /\ p.state = "Scheme"
    /\ \A i \in 1..Len(SCHEMES) : p.scheme_indices[i] >= Len(SCHEMES[i])

\* The characters the model names, and every illegal character.
NamedCharacters == {Code[f] : f \in DOMAIN Code} \cup IllegalCharacters

(***************************************************************************)
(* C9: whenever advance returns MaybeUrl, len is at least 1 and some       *)
(* continuation of the input makes advance return Url(_) with no NoUrl in  *)
(* between.                                                                *)
(* The code returns MaybeUrl for the x of x://a and for every letter after *)
(* it, where no continuation reaches Url before a NoUrl.                   *)
(***************************************************************************)
C9_MaybeUrlIsViable ==
    (result = MaybeUrl /\ branch # "reset")
    => len >= 1 /\ Viable(self)

\* Why C9 fails for good in a dead parser: whatever character is fed, the
\* call returns NoUrl or leaves the parser dead.
DeadStaysDead ==
    Dead(self)
    => \A c \in NamedCharacters :
          LET o == advance(self, c)
          IN o.r = NoUrl \/ (o.r = MaybeUrl /\ Dead(o.p))

\* Where C9 holds: after every MaybeUrl of a parser that is not dead.
MaybeUrlViableUnlessDead ==
    (result = MaybeUrl /\ branch # "reset")
    => len >= 1 /\ (Viable(self) <=> ~Dead(self))

(***************************************************************************)
(* C10: no scheme of the list is the end of another scheme of the list; so *)
(* while the letters of a scheme are matched in reverse, no shorter scheme *)
(* completes before it: a text that starts with a scheme and "://" gets    *)
(* its Url on the call for its first character and on no earlier call.     *)
(***************************************************************************)
C10_NoSchemeEndsWithAnother ==
    /\ \A i, j \in 1..Len(SCHEMES) :
          i # j => ~HasSuffix(SCHEMES[i], SCHEMES[j])
    /\ \A i \in 1..Len(SCHEMES) :
          HasPrefix(input, SCHEMES[i] \o Sep)
          => \A k \in 1..Len(results) :
                results[k].tag = "Url" => k = Len(input)

\* https://a scanned to its start: https and news both matched the s, http
\* failed on it, and https alone completed.
C10_Witness ==
    /\ input = SCHEMES[2] \o Sep \o <<Code.a>>
    /\ fed = Len(input)
    /\ result = Url(9)

\* The position stored in the surround entry pushed last among those still
\* pending, 0 when none is pending.
PendingPosition ==
    IF Len(surround_states) = 0 THEN 0
    ELSE surround_states[Len(surround_states)][2]

(***************************************************************************)
(* C11: whenever advance returns Url(n), n = L - P: L the number of calls  *)
(* of advance since the parser was last in its initial state, this call    *)
(* included, and P the position stored in the pending surround entry       *)
(* pushed last (0 when none is pending).  Nowhere else does the length go  *)
(* down: over any other step len grows by 1 or is reset to 0.              *)
(***************************************************************************)
C11_UrlLengthIsCallsMinusPending ==
    [][ /\ branch' = "url" =>
            /\ result'.tag = "Url"
            /\ result'.length = (calls + 1) - PendingPosition
            /\ len + 1 = calls + 1
        /\ len' = len + 1 \/ len' = 0 ]_vars

\* A URL completed with two surround entries pending, the later one at
\* position 2: ftp://a)) gives Url(7) on the ninth call.
C11_Witness ==
    /\ branch = "url"
    /\ len_at_call = 8
    /\ result = Url(7)
    /\ fed = 9

\* The pending entries that store c as their counterpart, by index.
PendingFor(c) == {k \in 1..Len(surround_states) : surround_states[k][1] = c}

\* The one pushed last among them.
MostRecentFor(c) == CHOOSE k \in PendingFor(c) : \A j \in PendingFor(c) : j <= k

\* The pending entries without the one at index m, the others in their order.
PendingWithout(m) ==
    [k \in 1..(Len(surround_states) - 1) |->
        IF k < m THEN surround_states[k] ELSE surround_states[k + 1]]

\* The step is a call of advance.
AdvanceStep == branch' # "reset"

(***************************************************************************)
(* C12: when advance(c) is called with a legal c that at least one pending *)
(* entry stores as counterpart, and the position p of the entry pushed     *)
(* last among these satisfies p + 1 < len after the increment, exactly     *)
(* that entry is removed, the other entries keep place and order, and the  *)
(* call returns MaybeUrl.                                                  *)
(***************************************************************************)
C12_MostRecentMatchRemoved ==
    [][ ( /\ AdvanceStep
          /\ c_last' \notin IllegalCharacters
          /\ PendingFor(c_last') # {}
          /\ surround_states[MostRecentFor(c_last')][2] + 1 < len + 1 )
        => /\ surround_states' = PendingWithout(MostRecentFor(c_last'))
           /\ result' = MaybeUrl
           /\ branch' = "match"
           /\ len' = len + 1 ]_vars

\* Of two pending entries for '(' the later one was removed: the one pushed
\* at position 1 is still there.
C12_Witness ==
    /\ branch = "match"
    /\ c_last = Code.lparen
    /\ surround_states = << <<Code.lparen, 1>> >>
    /\ len >= 5

\* The counterpart the surround tracker waits for after ), ] or '.
Counterpart(c) ==
    CASE c = Code.rparen -> Code.lparen
      [] c = Code.rbracket -> Code.lbracket
      [] c = Code.quote -> Code.quote

\* The variables hold the parser of Parser::new() after the step.
InitialAfter ==
    /\ state' = "Default"
    /\ scheme_indices' = [i \in 1..8 |-> 0]
    /\ surround_states' = <<>>
    /\ len' = 0

(***************************************************************************)
(* C13: in every structural state, advance(c) with c = '(' or '[' and no   *)
(* pending entry that stores c resets the parser and returns NoUrl;        *)
(* advance(c) with c = ')' or ']', or with c = ' and no pending quote      *)
(* entry, pushes (counterpart, len after the increment) and returns        *)
(* MaybeUrl.                                                               *)
(***************************************************************************)
C13_UnbalancedResetsClosingPushes ==
    [][ AdvanceStep =>
        /\ ( (c_last' \in {Code.lparen, Code.lbracket}
               /\ PendingFor(c_last') = {})
             => (result' = NoUrl /\ InitialAfter) )
        /\ ( ( c_last' \in {Code.rparen, Code.rbracket}
                \/ (c_last' = Code.quote /\ PendingFor(Code.quote) = {}) )
             => ( /\ surround_states' =
                       Append(surround_states, <<Counterpart(c_last'), len + 1>>)
                  /\ result' = MaybeUrl
                  /\ len' = len + 1 ) ) ]_vars

\* A ']' met while the letters of a scheme are matched was pushed on top of
\* an older entry.
C13_Witness ==
    /\ branch = "push"
    /\ c_last = Code.rbracket
    /\ state = "Scheme"
    /\ Len(surround_states) = 2
    /\ surround_states[2] = <<Code.lbracket, len>>

(***************************************************************************)
(* C14: when the pending entry pushed last among those that store c was    *)
(* pushed by the call just before (an empty pair (), [] or '' in the text), *)
(* advance(c) does not remove it: it resets the parser and returns NoUrl,  *)
(* also when an older entry that stores c is pending.                      *)
(***************************************************************************)
C14_EmptyPairResets ==
    [][ ( /\ AdvanceStep
          /\ branch = "push"
          /\ surround_states # <<>>
          /\ surround_states[Len(surround_states)][1] = c_last' )
        => /\ MostRecentFor(c_last') = Len(surround_states)
           /\ surround_states[Len(surround_states)][2] = len
           /\ result' = NoUrl
           /\ InitialAfter ]_vars

\* The second quote of an empty pair '' was fed after other characters: only
\* a quote found pending and adjacent takes this return of advance.
C14_Witness ==
    /\ branch = "unbalanced"
    /\ c_last = Code.quote
    /\ len_at_call >= 3
    /\ result = NoUrl
    /\ len = 0

\* . , : ; ? !
Terminators ==
    {Code.dot, Code.comma, Code.colon, Code.semi, Code.quest, Code.bang}

\* a..z and A..Z.
AsciiLetters == (97..122) \cup (65..90)

\* The text t ends with "//:" and then letters only, something before them.
EndsWithSlashesColonLetters(t) ==
    \E k \in 2..(Len(t) - 2) :
        /\ t[k] = Code.slash
        /\ t[k + 1] = Code.slash
        /\ t[k + 2] = Code.colon
        /\ \A j \in (k + 3)..Len(t) : t[j] \in AsciiLetters

\* The edges of the structural state, with the character that takes each.
StateEdge ==
    \/ state = "Default" /\ state' = "Path" /\ c_last' \notin Terminators
    \/ state = "Path" /\ state' = "SchemeFirstSlash" /\ c_last' = Code.slash
    \/ state = "SchemeFirstSlash" /\ state' = "SchemeSecondSlash"
          /\ c_last' = Code.slash
    \/ state = "SchemeFirstSlash" /\ state' = "Path" /\ c_last' # Code.slash
    \/ state = "SchemeSecondSlash" /\ state' = "Scheme" /\ c_last' = Code.colon
    \/ state = "SchemeSecondSlash" /\ state' = "Path" /\ c_last' # Code.colon
    \/ state' = "Default" /\ InitialAfter

(***************************************************************************)
(* C15: the structural state changes only along Default -> Path (no        *)
(* terminator), Path -> SchemeFirstSlash ('/'), SchemeFirstSlash ->        *)
(* SchemeSecondSlash ('/') or Path (other), SchemeSecondSlash -> Scheme    *)
(* (':') or Path (other), Scheme -> Scheme (a letter), and from any state  *)
(* to Default by a reset.  Hence whenever the state is Scheme, the         *)
(* characters that reached the automaton since the attempt began end with  *)
(* '/', '/', ':' and then ASCII letters only.                              *)
(***************************************************************************)
StructuralEdges ==
    [][ /\ state' # state => StateEdge
       /\ (state = "Scheme" /\ state' = "Scheme" /\ branch' = "automaton")
          => c_last' \in AsciiLetters ]_vars

Continues(p, d) ==
    LET o == advance_state([p EXCEPT !.len = p.len + 1], d)
    IN <<o.p.state, o.p.scheme_indices, o.r.tag>>

\* The parser after the step.
self_after ==
    [ scheme_indices |-> scheme_indices',
      state |-> state',
      surround_states |-> surround_states',
      len |-> len' ]

(***************************************************************************)
(* C16: an advance absorbed by the surround tracker (an entry pushed or    *)
(* removed) leaves the state and every scheme counter as they were and     *)
(* adds exactly 1 to len, and the automaton goes on from there as it would *)
(* have without the absorbed character.                                    *)
(***************************************************************************)
C16_AbsorbedLeavesAutomaton ==
    [][ branch' \in {"push", "match"} =>
            /\ state' = state
            /\ scheme_indices' = scheme_indices
            /\ len' = len + 1
            /\ Len(surround_states') # Len(surround_states)
            /\ \A d \in Alphabet : Continues(self_after, d) = Continues(self, d)
      ]_vars

\* An entry was removed while a scheme was partly matched.
C16_Witness ==
    /\ branch = "match"
    /\ state = "Scheme"
    /\ \E i \in 1..Len(SCHEMES) :
           scheme_indices[i] \in 1..(Len(SCHEMES[i]) - 1)

(***************************************************************************)
(* C17: a terminator (. , : ; ? !) is never the end of a reported URL:     *)
(* whenever advance returns Url(n), the character fed n - 1 calls earlier, *)
(* the last of the reported span in the order of the text, is none of      *)
(* them.  The code returns Url(8) for ftp://a.)a: the ')' is pending when  *)
(* the '.' is fed in state Path, and the length is cut just after it.      *)
(***************************************************************************)
C17_UrlEndsWithNoTerminator ==
    (fed > 0 /\ result.tag = "Url" /\ result.length \in 1..fed)
    => LastFed(result.length)[result.length] \notin Terminators

\* The letters that reached the automaton since it entered state Scheme, in
\* the order fed.
SchemeLetters ==
    IF state # "Scheme" THEN <<>>
    ELSE LET colons == {k \in 1..Len(reached) : reached[k] = Code.colon}
             last == CHOOSE k \in colons : \A j \in colons : j <= k
         IN SubSeq(reached, last + 1, Len(reached))

\* The last k letters of scheme i, the last one first.
LastLettersReversed(i, k) ==
    [j \in 1..k |-> SCHEMES[i][Len(SCHEMES[i]) - j + 1]]

\* The value of a counter whose scheme failed.
Failed(i) == Len(SCHEMES[i]) + 1

CountersMatchLetters ==
    \A i \in 1..Len(SCHEMES) :
        \/ /\ scheme_indices[i] \in 0..(Len(SCHEMES[i]) - 1)
           /\ SchemeLetters = LastLettersReversed(i, scheme_indices[i])
        \/ scheme_indices[i] = Failed(i)

CountersStep ==
    \A i \in 1..Len(SCHEMES) :
        /\ scheme_indices[i] = Failed(i)
           => (scheme_indices'[i] = Failed(i) \/ InitialAfter)
        /\ (state = "Scheme" /\ branch' = "automaton"
              /\ scheme_indices[i] < Len(SCHEMES[i]))
           => scheme_indices'[i] =
                  IF SCHEMES[i][Len(SCHEMES[i]) - scheme_indices[i]] = c_last'
                  THEN scheme_indices[i] + 1
                  ELSE Failed(i)

(***************************************************************************)
(* C18: each scheme counter is either k with 0 <= k < len(scheme), and     *)
(* then the letters that reached the automaton since it entered state      *)
(* Scheme are exactly the last k letters of the scheme in reverse order,   *)
(* or the failed value len(scheme) + 1.  A failed counter stays failed     *)
(* until the next reset, and what a letter does to one counter depends on  *)
(* that counter and its scheme alone.                                      *)
(***************************************************************************)
C18_SchemeCounters ==
    /\ []CountersMatchLetters
    /\ [][CountersStep]_vars

\* After three letters one scheme has failed and another is matched so far.
C18_Witness ==
    /\ state = "Scheme"
    /\ Len(SchemeLetters) >= 3
    /\ \E i, j \in 1..Len(SCHEMES) :
           /\ scheme_indices[i] = Failed(i)
           /\ scheme_indices[j] = Len(SchemeLetters)

\* The positions of the pending entries, oldest first.
Positions == [k \in 1..Len(surround_states) |-> surround_states[k][2]]

PositionsOrdered ==
    /\ \A k \in 1..Len(Positions) : Positions[k] >= 1 /\ Positions[k] <= len
    /\ \A j, k \in 1..Len(Positions) : j < k => Positions[j] < Positions[k]

\* On completion the length is cut at the greatest pending position: it stays
\* positive, and no pending character lies in the span of the last n calls.
SpanClearOfPending ==
    branch' = "url" =>
        /\ result'.length >= 1
        /\ result'.length <= len + 1
        /\ \A k \in 1..Len(Positions) :
               Positions[k] <= PendingPosition
               /\ Positions[k] <= (len + 1) - result'.length

(***************************************************************************)
(* C19: the positions stored in the pending stack are at least 1, strictly *)
(* increasing from the oldest entry to the newest, and none exceeds len.   *)
(* So the entry pushed last has the greatest position, the subtraction at  *)
(* the completion of a URL never underflows, and the reported span holds   *)
(* no character whose entry is still pending.                              *)
(***************************************************************************)
C19_PendingPositions ==
    /\ []PositionsOrdered
    /\ [][SpanClearOfPending]_vars

\* Two entries are pending, pushed two calls apart, and more was fed since.
C19_Witness ==
    /\ branch = "automaton"
    /\ Positions = <<1, 3>>
    /\ len >= 5

\* len counts the calls that returned MaybeUrl in a row, and a call returns
\* MaybeUrl exactly when it leaves len positive.
LenCountsMaybes ==
    /\ len = maybes
    /\ branch \notin {"new", "reset"} => (result = MaybeUrl <=> len > 0)

\* Url(n) after k calls that returned MaybeUrl in a row has 1 <= n <= k + 1.
UrlWithinMaybes ==
    (AdvanceStep /\ result'.tag = "Url")
    => (result'.length >= 1 /\ result'.length <= maybes + 1)

(***************************************************************************)
(* C20: after every call of advance, len is the number of calls in a row   *)
(* that returned MaybeUrl since the parser was last in its initial state   *)
(* (construction, reset(), or a call that returned NoUrl or Url), and a    *)
(* call returns MaybeUrl exactly when len is positive afterwards.  So a    *)
(* Url(n) that follows k such calls has 1 <= n <= k + 1.                   *)
(***************************************************************************)
C20_LenCountsMaybeUrls ==
    /\ []LenCountsMaybes
    /\ [][UrlWithinMaybes]_vars

\* A URL of the greatest length there can be after the calls before it.
C20_Witness ==
    /\ result.tag = "Url"
    /\ result.length = len_at_call + 1
    /\ len_at_call >= 6
    /\ maybes = 0

====
